---- MODULE Spec2Model ----
(***************************************************************************)
(* Model of .forgejo/workflows/check-changelog.py: the CI gate that fails  *)
(* a pipeline unless a changelog file was added or modified in the commit  *)
(* range, or the commit message carries a skip marker.                     *)
(*                                                                         *)
(* Text (commit message, environment values, the child's byte streams,     *)
(* printed lines) is modelled by TLA+ strings, read character by character *)
(* with SubSeq.  The process environment is a function whose DOMAIN is the *)
(* set of variables that are set, as os.environ is: reading a name outside *)
(* the domain raises KeyError, which nothing catches.                      *)
(***************************************************************************)
EXTENDS Integers, Sequences, FiniteSets, TLC

VARIABLES
    env,        \* os.environ: [set of defined names -> string]
    pc,         \* position of the script: skip, range, diff, wait, errcheck, report, policy, done
    treeish,    \* the revision range (line 17-21)
    argv,       \* the argument vector the child was spawned with (line 24)
    child,      \* the git child process: [state, stdout, stderr, returncode]
    diff,       \* the CompletedProcess captured by subprocess.run
    spawned,    \* number of child processes spawned so far
    out,        \* lines printed on standard output, one per print() call
    terminal,   \* RUNNING, SKIPPED, INFRA_ERROR, POLICY_PASS, POLICY_FAIL, CONFIG_FAULT
    exitStatus  \* <<>> while running, <<code>> once the process has exited

vars == <<env, pc, treeish, argv, child, diff, spawned, out, terminal, exitStatus>>

-----------------------------------------------------------------------------
(* Bounds and input sets *)

\* Largest number of separator characters between "skip" and "changelog"
\* in the generated commit messages.
MaxSep == 2

MSG == "CI_COMMIT_MESSAGE"
SRC == "CI_PIPELINE_SOURCE"
REF == "CI_COMMIT_REF_NAME"
BEFORE == "CI_COMMIT_BEFORE_SHA"
MRBASE == "CI_MERGE_REQUEST_DIFF_BASE_SHA"

EnvNames == {MSG, SRC, REF, BEFORE, MRBASE}

SepChars == {"-", "_", "\n"}

RECURSIVE Seps(_)
Seps(n) == IF n = 0 THEN {""}
           ELSE Seps(n - 1) \cup {s \o c : s \in Seps(n - 1), c \in SepChars}

Messages ==
    {"fix bug", "SKIP CHANGELOG", "Skip_ChangeLog", "skipxchangelog"}
    \cup {"fix bug [skip" \o s \o "changelog]" : s \in Seps(MaxSep)}

Sources == {"push", "merge_request_event", "schedule"}
RefNames == {"main", "feature"}
BeforeShas == {"1a2b3c"}
MrBaseShas == {"4d5e6f"}

\* Standard output of git diff-tree: status code, whitespace, path, per line.
Stdouts ==
    { "",
      "M\tdocs/CHANGELOG.md\n",
      "M\tsrc/main.py\n",
      "A\tChangeLog\n",
      "D\tCHANGELOG.md\n",
      "M\tmy dir/changelog.md\n",
      "D\tdocs/a changelog.md\n",
      "M\tsrc/main.py\nD\tdocs/M changelog.md\n",
      "M\tsrc/main.py\nA  changelog.d/fix.md\n",
      "D\tsrc/old.py\nM\tsrc/main.py\n" }

Stderrs == {"", "fatal: bad range", "fatal: bad revision 'main..'\n"}

ReturnCodes == {0, 1, 128}

-----------------------------------------------------------------------------
(* Strings *)

Ch(s, i) == SubSeq(s, i, i)

StartsWithAt(s, i, lit) ==
    /\ i >= 1
    /\ i + Len(lit) - 1 <= Len(s)
    /\ SubSeq(s, i, i + Len(lit) - 1) = lit

Contains(s, lit) == \E i \in 1..(Len(s) + 1) : StartsWithAt(s, i, lit)

UpperAlpha == "ABCDEFGHIJKLMNOPQRSTUVWXYZ"
LowerAlpha == "abcdefghijklmnopqrstuvwxyz"
Digits == "0123456789"

LowerChar(c) ==
    IF \E i \in 1..Len(UpperAlpha) : Ch(UpperAlpha, i) = c
    THEN Ch(LowerAlpha, CHOOSE i \in 1..Len(UpperAlpha) : Ch(UpperAlpha, i) = c)
    ELSE c

\* flags=re.I: matching is done on case-folded text.
RECURSIVE ToLower(_)
ToLower(s) == IF s = "" THEN "" ELSE LowerChar(Ch(s, 1)) \o ToLower(Tail(s))

\* \s of a bytes pattern (\v has no TLA+ escape and is not in the inputs).
IsSpace(c) == c \in {" ", "\t", "\n", "\r", "\f"}

-----------------------------------------------------------------------------
(* Pure functions of the script *)

\* Line 13: re.search(r'skip.?changelog', message, flags=re.I) is not None.
\* "." is any character but a newline; "?" makes it optional.
SkipMatchNonWord(message) ==
    LET l == ToLower(message)
    IN  \E i \in 1..Len(l) :
            /\ StartsWithAt(l, i, "skip")
            /\ \/ StartsWithAt(l, i + 4, "changelog")
               \/ /\ i + 4 <= Len(l)
                  /\ ~ Contains(LowerAlpha \o Digits \o "_", Ch(l, i + 4))
                  /\ StartsWithAt(l, i + 5, "changelog")

SkipMatch(message) ==
    LET l == ToLower(message)
    IN  \E i \in 1..Len(l) :
            /\ StartsWithAt(l, i, "skip")
            /\ \/ StartsWithAt(l, i + 4, "changelog")
               \/ /\ i + 4 <= Len(l)
                  /\ Ch(l, i + 4) # "\n"
                  /\ StartsWithAt(l, i + 5, "changelog")

\* Lines 17-21.  Every os.environ[...] is a read that raises KeyError when the
\* name is unset; "and" evaluates its right operand only when the left is
\* true.  The result is either a fault or the selected range.
Fault == [fault |-> TRUE, treeish |-> ""]
Range(t) == [fault |-> FALSE, treeish |-> t]

SelectRangeEager(e) ==
    IF \E n \in {SRC, REF, BEFORE, MRBASE} : n \notin DOMAIN e THEN Fault
    ELSE IF e[SRC] = "merge_request_event" THEN Range(e[MRBASE] \o "..")
    ELSE IF e[SRC] = "push" /\ e[REF] = "main" THEN Range(e[BEFORE] \o "..")
    ELSE Range("main..")

SelectRangeAnyPush(e) ==
    IF SRC \notin DOMAIN e THEN Fault
    ELSE IF e[SRC] = "push" /\ REF \notin DOMAIN e THEN Fault
    ELSE IF e[SRC] = "push" /\ BEFORE \notin DOMAIN e /\ e[REF] = "main" THEN Fault
    ELSE IF e[SRC] = "push" /\ BEFORE \in DOMAIN e THEN Range(e[BEFORE] \o "..")
    ELSE IF e[SRC] = "merge_request_event" /\ MRBASE \notin DOMAIN e THEN Fault
    ELSE IF e[SRC] = "merge_request_event" THEN Range(e[MRBASE] \o "..")
    ELSE Range("main..")

SelectRange(e) ==
    LET t0 == "main.." IN                                           \* line 17
    IF SRC \notin DOMAIN e THEN Fault                               \* line 18
    ELSE IF e[SRC] = "push" /\ REF \notin DOMAIN e THEN Fault       \* line 18
    ELSE LET pushMain == e[SRC] = "push" /\ e[REF] = "main" IN
         IF pushMain /\ BEFORE \notin DOMAIN e THEN Fault           \* line 19
         ELSE LET t1 == IF pushMain THEN e[BEFORE] \o ".." ELSE t0 IN
              IF e[SRC] # "merge_request_event" THEN Range(t1)      \* line 20
              ELSE IF MRBASE \notin DOMAIN e THEN Fault             \* line 21
              ELSE Range(e[MRBASE] \o "..")

\* Line 24: the argument vector of the child.
DiffArgv(t) == <<"git", "diff-tree", "--no-commit-id", "-r", t, "--">>

\* Line 28: "if diff.stderr:" is the truth value of a bytes object.
HasErrorReturnCode(d) == d.returncode # 0

HasErrorStderrOrCode(d) == d.stderr # "" \/ d.returncode # 0

HasError(d) == d.stderr # ""

\* Lines 29 and 32 format a bytes object into an f-string, which yields
\* repr(bytes): b'...' (b"..." when the bytes hold ' and no "), with the
\* quote, the backslash and the control characters escaped.
BytesQuote(b) == IF Contains(b, "'") /\ ~ Contains(b, "\"") THEN "\"" ELSE "'"

EscapeByte(c, q) ==
    CASE c = q \/ c = "\\" -> "\\" \o c
      [] c = "\t" -> "\\t"
      [] c = "\n" -> "\\n"
      [] c = "\r" -> "\\r"
      [] c = "\f" -> "\\x0c"
      [] OTHER -> c

RECURSIVE EscapeBytes(_, _)
EscapeBytes(b, q) ==
    IF b = "" THEN "" ELSE EscapeByte(Ch(b, 1), q) \o EscapeBytes(Tail(b), q)

BytesRepr(b) == "b" \o BytesQuote(b) \o EscapeBytes(b, BytesQuote(b)) \o BytesQuote(b)

SkippedLine == "Changelog skipped."                                 \* line 14
ErrorLine(d) == "An error occured: " \o BytesRepr(d.stderr)         \* line 29
ReportLine(t, d) == "Files in " \o t \o ":\n" \o BytesRepr(d.stdout) \* line 32
InstructionLine ==                                                  \* lines 36-39
    "Please update the Changelog. Use \"skip-changelog\" "
        \o "in the commit message to skip this check."
SuccessLine == "Changelog has been updated as expected."            \* line 42

\* Line 35: re.search(rb'[AM]\s+\S*changelog', diff.stdout, flags=re.I).
\* Unanchored search over the whole byte stream: a status character in
\* either case, one or more whitespace bytes, any run of non-whitespace
\* bytes, then "changelog".
ChangelogMatch(stdout) ==
    LET l == ToLower(stdout)
    IN  \E i \in 1..Len(l) :
            /\ Ch(l, i) \in {"a", "m"}
            /\ \E j \in (i + 1)..Len(l) :
                   /\ \A k \in (i + 1)..j : IsSpace(Ch(l, k))
                   /\ \E n \in j..Len(l) :
                          /\ \A k \in (j + 1)..n : ~ IsSpace(Ch(l, k))
                          /\ StartsWithAt(l, n + 1, "changelog")

-----------------------------------------------------------------------------
(* State machine *)

NoChild == [state |-> "none", stdout |-> "", stderr |-> "", returncode |-> 0]
NoDiff == [stdout |-> "", stderr |-> "", returncode |-> 0]

\* The state when the interpreter reaches line 11: any subset of the five
\* variables may be set in the environment.
Init ==
    /\ \E present \in SUBSET EnvNames :
       \E m \in Messages, s \in Sources, r \in RefNames,
          b \in BeforeShas, q \in MrBaseShas :
           env = [n \in present |->
                    CASE n = MSG -> m
                      [] n = SRC -> s
                      [] n = REF -> r
                      [] n = BEFORE -> b
                      [] n = MRBASE -> q]
    /\ pc = "skip"
    /\ treeish = ""
    /\ argv = <<>>
    /\ child = NoChild
    /\ diff = NoDiff
    /\ spawned = 0
    /\ out = <<>>
    /\ terminal = "RUNNING"
    /\ exitStatus = <<>>

\* sys.exit(code), or falling off the end of the script (code 0).
Exit(state, code) ==
    /\ pc' = "done"
    /\ terminal' = state
    /\ exitStatus' = <<code>>

\* An uncaught KeyError: the traceback goes to the error stream, nothing is
\* printed on standard output, and the interpreter exits with status 1.
KeyError ==
    /\ Exit("CONFIG_FAULT", 1)
    /\ UNCHANGED out

\* Lines 13-15.
SkipCheck ==
    /\ pc = "skip"
    /\ IF MSG \notin DOMAIN env
       THEN KeyError
       ELSE IF SkipMatch(env[MSG])
            THEN /\ out' = Append(out, SkippedLine)
                 /\ Exit("SKIPPED", 0)
            ELSE /\ pc' = "range"
                 /\ UNCHANGED <<out, terminal, exitStatus>>
    /\ UNCHANGED <<env, treeish, argv, child, diff, spawned>>

\* Lines 17-21.
RangeSelection ==
    /\ pc = "range"
    /\ IF SelectRange(env).fault
       THEN /\ KeyError
            /\ UNCHANGED treeish
       ELSE /\ treeish' = SelectRange(env).treeish
            /\ pc' = "diff"
            /\ UNCHANGED <<out, terminal, exitStatus>>
    /\ UNCHANGED <<env, argv, child, diff, spawned>>

\* Lines 23-26, first half: subprocess.run starts the child with both of its
\* output streams piped.
RunDiff ==
    /\ pc = "diff"
    /\ argv' = DiffArgv(treeish)
    /\ child' = [NoChild EXCEPT !.state = "running"]
    /\ spawned' = spawned + 1
    /\ pc' = "wait"
    /\ UNCHANGED <<env, treeish, diff, out, terminal, exitStatus>>

\* The child: git writes what it writes and exits with the status it chooses.
ChildExit ==
    /\ child.state = "running"
    /\ \E o \in Stdouts, e \in Stderrs, rc \in ReturnCodes :
           child' = [state |-> "exited", stdout |-> o, stderr |-> e, returncode |-> rc]
    /\ UNCHANGED <<env, pc, treeish, argv, diff, spawned, out, terminal, exitStatus>>

\* The mutant of AwaitDiff: the child is started and its pipes are read
\* without waiting for it to exit.
AwaitDiffNoWait ==
    /\ pc = "wait"
    /\ child.state \in {"running", "exited"}
    /\ diff' = [stdout |-> child.stdout, stderr |-> child.stderr,
                returncode |-> child.returncode]
    /\ child' = [child EXCEPT !.state = IF @ = "exited" THEN "reaped" ELSE @]
    /\ pc' = "errcheck"
    /\ UNCHANGED <<env, treeish, argv, spawned, out, terminal, exitStatus>>

\* Lines 23-26, second half: subprocess.run blocks until the child has
\* exited, reaps it and returns both streams, each in its own field
\* (capture_output=True), with the return code.
AwaitDiff ==
    /\ pc = "wait"
    /\ child.state = "exited"
    /\ diff' = [stdout |-> child.stdout, stderr |-> child.stderr,
                returncode |-> child.returncode]
    /\ child' = [child EXCEPT !.state = "reaped"]
    /\ pc' = "errcheck"
    /\ UNCHANGED <<env, treeish, argv, spawned, out, terminal, exitStatus>>

\* The mutant of ErrorCheck: the report is printed before the error check.
ErrorCheckAfterReport ==
    /\ pc = "errcheck"
    /\ IF HasError(diff)
       THEN /\ out' = out \o <<ReportLine(treeish, diff), ErrorLine(diff)>>
            /\ Exit("INFRA_ERROR", 1)
       ELSE /\ out' = Append(out, ReportLine(treeish, diff))
            /\ pc' = "policy"
            /\ UNCHANGED <<terminal, exitStatus>>
    /\ UNCHANGED <<env, treeish, argv, child, diff, spawned>>

\* Lines 28-30.
ErrorCheck ==
    /\ pc = "errcheck"
    /\ IF HasError(diff)
       THEN /\ out' = Append(out, ErrorLine(diff))
            /\ Exit("INFRA_ERROR", 1)
       ELSE /\ pc' = "report"
            /\ UNCHANGED <<out, terminal, exitStatus>>
    /\ UNCHANGED <<env, treeish, argv, child, diff, spawned>>

\* Line 32.
Report ==
    /\ pc = "report"
    /\ out' = Append(out, ReportLine(treeish, diff))
    /\ pc' = "policy"
    /\ UNCHANGED <<env, treeish, argv, child, diff, spawned, terminal, exitStatus>>

\* Lines 34-42.
PolicyCheck ==
    /\ pc = "policy"
    /\ IF ~ ChangelogMatch(diff.stdout)
       THEN /\ out' = Append(out, InstructionLine)
            /\ Exit("POLICY_FAIL", 1)
       ELSE /\ out' = Append(out, SuccessLine)
            /\ Exit("POLICY_PASS", 0)
    /\ UNCHANGED <<env, treeish, argv, child, diff, spawned>>

Next ==
    \/ SkipCheck
    \/ RangeSelection
    \/ RunDiff
    \/ ChildExit
    \/ AwaitDiff
    \/ ErrorCheck
    \/ Report
    \/ PolicyCheck

Spec == Init /\ [][Next]_vars

-----------------------------------------------------------------------------
(* The patterns as the specification words them *)

IsWordChar(c) == c # "" /\ Contains(LowerAlpha \o UpperAlpha \o Digits \o "_", c)

\* "skip", zero or more non-word characters, "changelog", in any case.
SpecSkipPattern(message) ==
    LET l == ToLower(message)
    IN  \E i \in 1..Len(l) :
            /\ StartsWithAt(l, i, "skip")
            /\ \E j \in (i + 4)..Len(l) :
                   /\ \A k \in (i + 4)..(j - 1) : ~ IsWordChar(Ch(l, k))
                   /\ StartsWithAt(l, j, "changelog")

\* "skip", at most one character that is not a newline, "changelog",
\* in any case.
AtMostOneCharPattern(message) ==
    LET l == ToLower(message)
    IN  \E i \in 1..Len(l), gap \in {0, 1} :
            /\ StartsWithAt(l, i, "skip")
            /\ StartsWithAt(l, i + 4 + gap, "changelog")
            /\ gap = 1 => Ch(l, i + 4) # "\n"

\* The lines of a text: the pieces between line breaks.
RECURSIVE SplitLines(_, _)
SplitLines(s, cur) ==
    IF s = "" THEN (IF cur = "" THEN <<>> ELSE <<cur>>)
    ELSE IF Ch(s, 1) = "\n" THEN <<cur>> \o SplitLines(Tail(s), "")
    ELSE SplitLines(Tail(s), cur \o Ch(s, 1))

\* A line matching ^[AM]\s+.*changelog in any case: an Added or Modified
\* status code at the start of the line, whitespace, then a path that holds
\* "changelog" anywhere.
LineIsChangelogChange(line) ==
    LET l == ToLower(line)
    IN  /\ Len(l) >= 2
        /\ Ch(l, 1) \in {"a", "m"}
        /\ IsSpace(Ch(l, 2))
        /\ \E n \in 3..Len(l) : StartsWithAt(l, n, "changelog")

SpecLinePattern(stdout) ==
    \E i \in 1..Len(SplitLines(stdout, "")) :
        LineIsChangelogChange(SplitLines(stdout, "")[i])

-----------------------------------------------------------------------------
(* Properties *)

Done == pc = "done"
Printed(line) == \E i \in DOMAIN out : out[i] = line
IsReportLine(line) == StartsWithAt(line, 1, "Files in ")
Has(n) == n \in DOMAIN env
Queried == spawned >= 1

\* C1 as stated: a commit message matching "skip", zero or more non-word
\* characters, "changelog" (any case) never leads to the diff query and the
\* run ends SKIPPED with exit status 0 (here with all five variables set).
C1_Original ==
    (DOMAIN env = EnvNames /\ SpecSkipPattern(env[MSG])) =>
        /\ spawned = 0
        /\ Done => (terminal = "SKIPPED" /\ exitStatus = <<0>>)

\* C1 amended: a commit message holding "skip", at most one character other
\* than a newline, then "changelog" (any case) never leads to the diff
\* query: the run goes from the skip check straight to exit status 0,
\* whatever the rest of the environment holds.
C1_SkipMarkerSkips ==
    (Has(MSG) /\ AtMostOneCharPattern(env[MSG])) =>
        /\ spawned = 0
        /\ pc \in {"skip", "done"}
        /\ Done => (terminal = "SKIPPED" /\ exitStatus = <<0>> /\ out = <<SkippedLine>>)

C1_Witness ==
    /\ Done
    /\ terminal = "SKIPPED"
    /\ env[MSG] = "Skip_ChangeLog"
    /\ ~ Has(SRC)

\* C2: the range handed to the diff query is "<before-sha>.." for a push to
\* main, "<merge-request base sha>.." for a merge request event on any ref,
\* and "main.." for every other source/ref combination.
C2_RangeIsFunctionOfTrigger ==
    Queried =>
        /\ Has(SRC)
        /\ Len(argv) = 6
        /\ IF env[SRC] = "merge_request_event"
           THEN Has(MRBASE) /\ argv[5] = env[MRBASE] \o ".."
           ELSE IF env[SRC] = "push" /\ Has(REF) /\ env[REF] = "main"
                THEN Has(BEFORE) /\ argv[5] = env[BEFORE] \o ".."
                ELSE argv[5] = "main.."

C2_Witness ==
    /\ Queried
    /\ env[SRC] = "merge_request_event"
    /\ Has(REF) /\ env[REF] = "main"
    /\ Has(BEFORE)
    /\ argv[5] = "4d5e6f.."

\* C3: once the query has returned with a non-empty error stream, the run
\* never reaches the report or the policy check and ends INFRA_ERROR with
\* exit status 1, whatever standard output holds.
C3_ErrorStreamIsFatal ==
    (child.state = "reaped" /\ diff.stderr # "") =>
        /\ pc \in {"errcheck", "done"}
        /\ Done => /\ terminal = "INFRA_ERROR"
                   /\ exitStatus = <<1>>
                   /\ ~ Printed(SuccessLine)
                   /\ ~ Printed(InstructionLine)

C3_Witness ==
    /\ Done
    /\ terminal = "INFRA_ERROR"
    /\ diff.stderr # ""
    /\ SpecLinePattern(diff.stdout)
    /\ ChangelogMatch(diff.stdout)

\* C4 as stated: with an empty error stream, an output holding a line that
\* starts with A or M, whitespace, and a path with "changelog" anywhere in
\* it ends the run POLICY_PASS with exit status 0.
C4_Claim ==
    (Done /\ Queried /\ diff.stderr = "" /\ SpecLinePattern(diff.stdout)) =>
        (terminal = "POLICY_PASS" /\ exitStatus = <<0>>)

\* C5 as stated: with an empty error stream, an output holding no line that
\* starts with A or M, whitespace, and a path with "changelog" in it ends
\* the run POLICY_FAIL with exit status 1.
C5_Claim ==
    (Done /\ Queried /\ diff.stderr = "" /\ ~ SpecLinePattern(diff.stdout)) =>
        (terminal = "POLICY_FAIL" /\ exitStatus = <<1>>)

\* C6 as stated: a run with any of the five variables unset ends in a
\* configuration fault.
C6_Original ==
    (Done /\ DOMAIN env # EnvNames) => terminal = "CONFIG_FAULT"

\* The variables a run reads, among those that are unset.
ReadsUnset ==
    \/ ~ Has(MSG)
    \/ /\ ~ AtMostOneCharPattern(env[MSG])
       /\ \/ ~ Has(SRC)
          \/ env[SRC] = "push" /\ ~ Has(REF)
          \/ env[SRC] = "push" /\ env[REF] = "main" /\ ~ Has(BEFORE)
          \/ env[SRC] = "merge_request_event" /\ ~ Has(MRBASE)

\* C6 amended: a run ends in a configuration fault (exit status 1, nothing
\* printed, no query) exactly when a variable it reads is unset: the commit
\* message; and, when the message holds no skip marker, the pipeline source,
\* the ref name for a push, the before-SHA for a push to main, and the
\* merge request base SHA for a merge request event.
C6_FaultIffReadUnset ==
    Done =>
        /\ terminal = "CONFIG_FAULT" <=> ReadsUnset
        /\ terminal = "CONFIG_FAULT" =>
               (exitStatus = <<1>> /\ out = <<>> /\ spawned = 0)

C6_Witness ==
    /\ Done
    /\ terminal = "CONFIG_FAULT"
    /\ DOMAIN env = EnvNames \ {BEFORE}

\* C7 as stated: a run that ends INFRA_ERROR has printed a line that holds
\* the error stream's characters exactly as the child wrote them, and exits
\* with status 1.
C7_Claim ==
    (Done /\ terminal = "INFRA_ERROR") =>
        /\ \E i \in DOMAIN out : Contains(out[i], diff.stderr)
        /\ exitStatus = <<1>>

\* C8: at most one child is ever spawned, and the program is in a terminal
\* state only with no child or with a child that has exited and been
\* reaped, both of its streams captured in full, each in its own field.
C8_OneChildAwaited ==
    /\ spawned <= 1
    /\ Done => child.state \in {"none", "reaped"}
    /\ (Done /\ Queried) =>
           /\ child.state = "reaped"
           /\ diff.stdout = child.stdout
           /\ diff.stderr = child.stderr

C8_Witness ==
    /\ Done
    /\ spawned = 1
    /\ child.state = "reaped"
    /\ diff.stdout = "M\tsrc/main.py\n"
    /\ diff.stderr = "fatal: bad range"

\* C9: a run that ends POLICY_PASS or POLICY_FAIL has printed the report
\* line exactly once, before the verdict line; a run that ends SKIPPED or
\* INFRA_ERROR has printed no report line.
C9_ReportBeforeVerdict ==
    Done =>
        /\ terminal \in {"POLICY_PASS", "POLICY_FAIL"} =>
               /\ Cardinality({i \in DOMAIN out : IsReportLine(out[i])}) = 1
               /\ \E i, j \in DOMAIN out :
                      /\ i < j
                      /\ out[i] = ReportLine(argv[5], diff)
                      /\ out[j] = IF terminal = "POLICY_PASS"
                                  THEN SuccessLine ELSE InstructionLine
        /\ terminal \in {"SKIPPED", "INFRA_ERROR"} =>
               \A i \in DOMAIN out : ~ IsReportLine(out[i])

C9_Witness ==
    /\ Done
    /\ terminal = "POLICY_FAIL"
    /\ Len(out) = 2
    /\ IsReportLine(out[1])

\* C10: the terminal state and the exit status of a run that made the query
\* are determined by the captured error stream and standard output alone;
\* the child's exit status plays no part, and a child that exits non-zero
\* with an empty error stream is judged by the policy check.
C10_ReturnCodeIgnored ==
    (Done /\ Queried) =>
        /\ terminal = IF diff.stderr # "" THEN "INFRA_ERROR"
                      ELSE IF ChangelogMatch(diff.stdout) THEN "POLICY_PASS"
                      ELSE "POLICY_FAIL"
        /\ exitStatus = IF terminal = "POLICY_PASS" THEN <<0>> ELSE <<1>>
        /\ (diff.returncode # 0 /\ diff.stderr = "") =>
               terminal \in {"POLICY_PASS", "POLICY_FAIL"}

C10_Witness ==
    /\ Done
    /\ diff.returncode = 128
    /\ diff.stderr = ""
    /\ terminal = "POLICY_PASS"

====
